---- MODULE Spec2Model ----
(***************************************************************************)
(* Model of blankly/deployment/reporter_headers.py: class Reporter.         *)
(*                                                                         *)
(* Two specifications share the module.  SpecRegistry covers the           *)
(* live-variable registry, the screener slot and the no-op export and log  *)
(* hooks.  Spec covers the notification dispatch (text, email, chat) and   *)
(* the card renderer.                                                      *)
(*                                                                         *)
(* Python values are modelled as follows.  A dict is the sequence of its   *)
(* <<key, value>> pairs in insertion order.  A call returns Ok(v) or       *)
(* Raise(type, arg).  Payloads of chat are tagged values [t |-> tag, ...]  *)
(* so that isinstance can be decided.                                      *)
(***************************************************************************)
EXTENDS Integers, Sequences, FiniteSets, TLC

VARIABLES
    live_vars,        \* Reporter.__live_vars: dict id(var) -> var
    screener,         \* Reporter.__screener
    refs,             \* the objects the caller holds a reference to
    next_serial,      \* number of objects allocated so far, plus one
    notify_json,      \* the preferences document load_notify_preferences returns
    ret,              \* the last call: its name, its arguments and its outcome
    trace,            \* the calls and network events of the last call, in order
    last_stored,      \* history: {<<handle, object>>} of the last export per handle
    screener_called   \* history: export_screener has been called

vars == <<live_vars, screener, refs, next_serial, notify_json, ret, trace,
          last_stored, screener_called>>

---------------------------------------------------------------------------
(* Bounds *)

MaxAddr == 2
MaxObjects == 3

---------------------------------------------------------------------------
(* Python: results, None, dict *)

None == [t |-> "None"]

Ok(v) == [ok |-> TRUE, val |-> v]

Raise(type, arg) == [ok |-> FALSE, exc |-> [type |-> type, arg |-> arg]]

Raised(r, type) == (~r.ok) /\ r.exc.type = type

Keys(d) == {d[i][1] : i \in DOMAIN d}

\* d[k]: the value under k, KeyError(k) when k is not a key
GetItem(d, k) ==
    IF k \in Keys(d)
    THEN Ok(d[CHOOSE i \in DOMAIN d : d[i][1] = k][2])
    ELSE Raise("KeyError", k)

\* d[k] = v: replaces the value of an existing key in place, appends a new key
SetItem(d, k, v) ==
    IF k \in Keys(d)
    THEN [i \in DOMAIN d |-> IF d[i][1] = k THEN <<k, v>> ELSE d[i]]
    ELSE Append(d, <<k, v>>)

---------------------------------------------------------------------------
(* Object identity.  An object is [id, serial, val]: id is its address, which
   CPython gives to one live object at a time; serial tells apart the objects
   that held an address one after the other. *)

Addr == 1..MaxAddr

Values == {"x", "y"}

Names == {"alpha", "beta"}

id(var) == var.id

\* The objects that are alive: referenced by the caller or by the registry.
Live == refs \cup {live_vars[i][2] : i \in DOMAIN live_vars}

FreeAddr == Addr \ {id(o) : o \in Live}

---------------------------------------------------------------------------
(* Reporter: construction *)

InitRegistry ==
    /\ live_vars = <<>>
    /\ screener = None
    /\ refs = {}
    /\ next_serial = 1
    /\ notify_json = <<>>
    /\ ret = [op |-> "__init__"]
    /\ trace = <<>>
    /\ last_stored = {}
    /\ screener_called = FALSE

dispatch_vars == <<notify_json, trace>>

\* The caller creates a value: it is allocated at an address no live object has.
NewObject ==
    /\ next_serial <= MaxObjects
    /\ \E a \in FreeAddr, v \in Values :
          /\ refs' = refs \cup {[id |-> a, serial |-> next_serial, val |-> v]}
          /\ ret' = [op |-> "new"]
    /\ next_serial' = next_serial + 1
    /\ UNCHANGED <<live_vars, screener, last_stored, screener_called, dispatch_vars>>

\* The caller drops its reference; an object nothing else refers to is freed.
DropObject ==
    /\ \E o \in refs :
          /\ refs' = refs \ {o}
          /\ ret' = [op |-> "del"]
    /\ UNCHANGED <<live_vars, screener, next_serial, last_stored, screener_called,
                   dispatch_vars>>

\* self.__live_vars[id(var)] = var
export_live_var_reset(lv, var, name, description) == <<<<id(var), var>>>>

export_live_var(lv, var, name, description) == SetItem(lv, id(var), var)

\* return self.__live_vars[id(var)]
update_live_var(lv, var) == GetItem(lv, id(var))

ExportLiveVar ==
    /\ \E var \in refs, name \in Names, description \in {None} :
          /\ live_vars' = export_live_var(live_vars, var, name, description)
          /\ last_stored' = {p \in last_stored : p[1] # id(var)} \cup {<<id(var), var>>}
          /\ ret' = [op |-> "export_live_var", var |-> var, name |-> name,
                     result |-> Ok(None)]
    /\ UNCHANGED <<screener, refs, next_serial, screener_called, dispatch_vars>>

UpdateLiveVar ==
    /\ \E var \in refs :
          ret' = [op |-> "update_live_var", var |-> var,
                  result |-> update_live_var(live_vars, var)]
    /\ UNCHANGED <<live_vars, screener, refs, next_serial, last_stored,
                   screener_called, dispatch_vars>>

\* if self.__screener is None: self.__screener = screener
\* else: raise RuntimeError(...)
export_screener_overwrite(current, new_screener) ==
    [screener |-> new_screener, result |-> Ok(None)]

export_screener(current, new_screener) ==
    IF current = None
    THEN [screener |-> new_screener, result |-> Ok(None)]
    ELSE [screener |-> current,
          result |-> Raise("RuntimeError",
                           "Currently only a single screener can be created per model.")]

Screeners == {[t |-> "Screener", name |-> "s1"], [t |-> "Screener", name |-> "s2"]}

ExportScreener ==
    /\ \E s \in Screeners :
          LET r == export_screener(screener, s) IN
          /\ screener' = r.screener
          /\ ret' = [op |-> "export_screener", screener |-> s, result |-> r.result]
    /\ screener_called' = TRUE
    /\ UNCHANGED <<live_vars, refs, next_serial, last_stored, dispatch_vars>>

\* The hooks whose body is `pass`: they return None and change nothing.
registry_vars == <<live_vars, screener, refs, next_serial, last_stored, screener_called>>

Pass(op) ==
    /\ ret' = [op |-> op, result |-> Ok(None)]
    /\ UNCHANGED <<registry_vars, dispatch_vars>>

ExportStrategy == Pass("export_strategy")

ExportScreenerResult == Pass("export_screener_result")

ExportBacktestResult == Pass("export_backtest_result")

ExportUsedExchange == Pass("export_used_exchange")

LogMarketOrder == Pass("log_market_order")

LogLimitOrder == Pass("log_limit_order")

UpdateOrder == Pass("update_order")

ExportUsedSymbol == Pass("export_used_symbol")

AnnotateOrder == Pass("annotate_order")

NextRegistry ==
    \/ NewObject
    \/ DropObject
    \/ ExportLiveVar
    \/ UpdateLiveVar
    \/ ExportScreener
    \/ ExportStrategy
    \/ ExportScreenerResult
    \/ ExportBacktestResult
    \/ ExportUsedExchange
    \/ LogMarketOrder
    \/ LogLimitOrder
    \/ UpdateOrder
    \/ ExportUsedSymbol
    \/ AnnotateOrder

SpecRegistry == InitRegistry /\ [][NextRegistry]_vars

---------------------------------------------------------------------------
(* Python: tagged values, str(), json.dumps *)

PyStr(s) == [t |-> "str", s |-> s]

PyInt(n) == [t |-> "int", n |-> n]

PyBool(b) == [t |-> "bool", b |-> b]

PyDict(items) == [t |-> "dict", items |-> items]

PyList(elems) == [t |-> "list", elems |-> elems]

PyTuple(elems) == [t |-> "tuple", elems |-> elems]

\* pandas.DataFrame: the column labels and the rows of cell values
DataFrame(columns, rows) == [t |-> "DataFrame", columns |-> columns, values |-> rows]

isinstance(x, type) == x.t = type

Digits == <<"0", "1", "2", "3", "4", "5", "6", "7", "8", "9">>

RECURSIVE NatToStr(_)
NatToStr(n) ==
    IF n < 10 THEN Digits[n + 1] ELSE NatToStr(n \div 10) \o Digits[(n % 10) + 1]

IntToStr(n) == IF n < 0 THEN "-" \o NatToStr(-n) ELSE NatToStr(n)

\* str(x) of a value that is not a container
str(x) ==
    CASE x.t = "str" -> x.s
      [] x.t = "int" -> IntToStr(x.n)
      [] x.t = "bool" -> (IF x.b THEN "True" ELSE "False")
      [] x.t = "None" -> "None"

RECURSIVE Join(_, _)
Join(strings, sep) ==
    IF strings = <<>> THEN ""
    ELSE IF Len(strings) = 1 THEN strings[1]
    ELSE strings[1] \o sep \o Join(Tail(strings), sep)

\* json.dumps with its default separators; a dict key is written as a string
RECURSIVE dumps(_)
dumps(o) ==
    CASE o.t = "str" -> "\"" \o o.s \o "\""
      [] o.t = "int" -> IntToStr(o.n)
      [] o.t = "bool" -> (IF o.b THEN "true" ELSE "false")
      [] o.t = "None" -> "null"
      [] o.t \in {"list", "tuple"} ->
            "[" \o Join([i \in DOMAIN o.elems |-> dumps(o.elems[i])], ", ") \o "]"
      [] o.t = "dict" ->
            "{" \o Join([i \in DOMAIN o.items |->
                            "\"" \o str(o.items[i][1]) \o "\": " \o dumps(o.items[i][2])], ", ")
                \o "}"

---------------------------------------------------------------------------
(* The module's global names, and the lookup of one *)

\* lines 19-30: what the module imports and defines
ModuleGlobals ==
    {"smtplib", "ssl", "Any", "load_notify_preferences", "Strategy", "Screener",
     "BacktestResult", "Reporter"}

LoadGlobal(name) ==
    IF name \in ModuleGlobals
    THEN Ok(name)
    ELSE Raise("NameError", "name '" \o name \o "' is not defined")

\* isinstance(x, pd.DataFrame): the name pd is looked up first
isinstance_pd_DataFrame(x) ==
    LET pd == LoadGlobal("pd") IN
    IF pd.ok THEN Ok(isinstance(x, "DataFrame")) ELSE pd

---------------------------------------------------------------------------
(* Preferences *)

\* blankly.utils.utils.load_notify_preferences: the preferences document as it is
load_notify_preferences == Ok(notify_json)

\* d[k1][k2]
GetItem2(d, k1, k2) ==
    LET section == GetItem(d, k1) IN
    IF section.ok THEN GetItem(section.val, k2) ELSE section

email_lookup ==
    << <<"att", "@txt.att.net">>,
       <<"boost", "@smsmyboostmobile.com">>,
       <<"cricket", "@sms.cricketwireless.net">>,
       <<"sprint", "@messaging.sprintpcs.com">>,
       <<"t_mobile", "@tmomail.net">>,
       <<"us_cellular", "@email.uscc.net">>,
       <<"verizon", "@vtext.com">>,
       <<"virgin_mobile", "@vmobl.com">> >>

---------------------------------------------------------------------------
(* Reporter.__send_email *)

SmtpFaults == {"none", "connect", "login", "sendmail"}

SmtpError(fault) ==
    CASE fault = "connect" -> Raise("SMTPConnectError", fault)
      [] fault = "login" -> Raise("SMTPAuthenticationError", fault)
      [] fault = "sendmail" -> Raise("SMTPRecipientsRefused", fault)

smtp_session_swallow(smtp_server, port, sender_email, password, receiver_email, message, fault) ==
    [result |-> Ok(None),
     trace |-> <<[ev |-> "connect", host |-> smtp_server, port |-> port]>>]

\* with smtplib.SMTP_SSL(...) as server: server.login(...); server.sendmail(...)
\* Leaving the with block ends the session; an exception goes on to the caller.
smtp_session(smtp_server, port, sender_email, password, receiver_email, message, fault) ==
    LET connect == [ev |-> "connect", host |-> smtp_server, port |-> port]
        login == [ev |-> "login", user |-> sender_email, password |-> password]
        sendmail == [ev |-> "sendmail", from_addr |-> sender_email,
                     to_addrs |-> receiver_email, msg |-> message]
        quit == [ev |-> "quit"]
    IN  CASE fault = "connect" -> [result |-> SmtpError(fault), trace |-> <<connect>>]
          [] fault = "login" ->
                [result |-> SmtpError(fault), trace |-> <<connect, login, quit>>]
          [] fault = "sendmail" ->
                [result |-> SmtpError(fault), trace |-> <<connect, login, sendmail, quit>>]
          [] fault = "none" ->
                [result |-> Ok(None), trace |-> <<connect, login, sendmail, quit>>]

__send_email_ignore_override(email_str, override_receiver, fault) ==
    LET np == load_notify_preferences
        port == GetItem2(np.val, "email", "port")
        smtp_server == GetItem2(np.val, "email", "smtp_server")
        sender_email == GetItem2(np.val, "email", "sender_email")
        receiver_email == GetItem2(np.val, "email", "receiver_email")
        password == GetItem2(np.val, "email", "password")
    IN  IF ~port.ok THEN [result |-> port, trace |-> <<>>]
        ELSE IF ~smtp_server.ok THEN [result |-> smtp_server, trace |-> <<>>]
        ELSE IF ~sender_email.ok THEN [result |-> sender_email, trace |-> <<>>]
        ELSE IF ~receiver_email.ok THEN [result |-> receiver_email, trace |-> <<>>]
        ELSE IF ~password.ok THEN [result |-> password, trace |-> <<>>]
        ELSE smtp_session(smtp_server.val, port.val, sender_email.val, password.val,
                          receiver_email.val, email_str, fault)

__send_email(email_str, override_receiver, fault) ==
    LET np == load_notify_preferences
        port == GetItem2(np.val, "email", "port")
        smtp_server == GetItem2(np.val, "email", "smtp_server")
        sender_email == GetItem2(np.val, "email", "sender_email")
        receiver_email == GetItem2(np.val, "email", "receiver_email")
        password == GetItem2(np.val, "email", "password")
    IN  IF ~port.ok THEN [result |-> port, trace |-> <<>>]
        ELSE IF ~smtp_server.ok THEN [result |-> smtp_server, trace |-> <<>>]
        ELSE IF ~sender_email.ok THEN [result |-> sender_email, trace |-> <<>>]
        ELSE IF ~receiver_email.ok THEN [result |-> receiver_email, trace |-> <<>>]
        ELSE IF ~password.ok THEN [result |-> password, trace |-> <<>>]
        ELSE smtp_session(smtp_server.val, port.val, sender_email.val, password.val,
                          IF ~isinstance(override_receiver, "None")
                          THEN override_receiver.s ELSE receiver_email.val,
                          email_str, fault)

\* A call of __send_email, as the caller sees it: the call, then what it did.
call_send_email(email_str, override_receiver, fault) ==
    LET r == __send_email(email_str, override_receiver, fault) IN
    [result |-> r.result,
     trace |-> <<[ev |-> "__send_email", email_str |-> email_str,
                  override_receiver |-> override_receiver]>> \o r.trace]

---------------------------------------------------------------------------
(* Reporter.text, Reporter.email *)

ProviderNotFound ==
    "Provider not found. Check the notify.json documentation to see supported providers."

text_unchecked_provider(body, fault) ==
    LET np == load_notify_preferences
        provider == GetItem2(np.val, "text", "provider")
        phone_number == GetItem2(np.val, "text", "phone_number")
        email == GetItem(email_lookup, provider.val)
    IN  IF ~provider.ok THEN [result |-> provider, trace |-> <<>>]
        ELSE IF ~phone_number.ok THEN [result |-> phone_number, trace |-> <<>>]
        ELSE call_send_email(body,
                             PyStr(phone_number.val \o (IF email.ok THEN email.val ELSE "")),
                             fault)

text(body, fault) ==
    LET np == load_notify_preferences
        provider == GetItem2(np.val, "text", "provider")
        phone_number == GetItem2(np.val, "text", "phone_number")
        email == GetItem(email_lookup, provider.val)
    IN  IF ~provider.ok THEN [result |-> provider, trace |-> <<>>]
        ELSE IF ~phone_number.ok THEN [result |-> phone_number, trace |-> <<>>]
        ELSE IF Raised(email, "KeyError")
             THEN [result |-> Raise("KeyError", ProviderNotFound), trace |-> <<>>]
        ELSE call_send_email(body, PyStr(phone_number.val \o email.val), fault)

email(body, fault) == call_send_email(body, None, fault)

---------------------------------------------------------------------------
(* Reporter.__create_card *)

KV(key, value) == <<PyStr(key), value>>

Cell(title, alignment) ==
    PyDict(<<KV("title", PyStr(title)), KV("textAlignment", PyStr(alignment))>>)

TextParagraph(s) == PyDict(<<KV("textParagraph", PyDict(<<KV("text", PyStr(s))>>))>>)

Grid(columnCount, items) ==
    PyDict(<<KV("grid", PyDict(<<KV("columnCount", PyInt(columnCount)),
                                 KV("items", PyList(items))>>))>>)

\* df.values.ravel(): the cells of the rows, one row after the other
RECURSIVE ravel(_)
ravel(rows) == IF rows = <<>> THEN <<>> ELSE Head(rows) \o ravel(Tail(rows))

\* `if text:` in get_df_section
Truthy(x) == ~isinstance(x, "None") /\ ~(isinstance(x, "str") /\ x.s = "")

get_df_section(df, caption) ==
    LET cols == df.columns
        items == [i \in DOMAIN cols |-> Cell(str(cols[i]), "CENTER")]
                 \o [i \in DOMAIN ravel(df.values) |->
                        Cell(str(ravel(df.values)[i]), "START")]
    IN  PyDict(<<KV("collapsible", PyBool(TRUE)),
                 KV("uncollapsibleWidgetsCount", PyInt(1)),
                 KV("widgets",
                    PyList((IF Truthy(caption) THEN <<TextParagraph(str(caption))>>
                            ELSE <<>>)
                           \o <<Grid(Len(df.columns), items)>>))>>)

\* for inner_key, inner_value in data.items(): items += [key cell, value cell]
RECURSIVE dict_items_cells(_)
dict_items_cells(pairs) ==
    IF pairs = <<>> THEN <<>>
    ELSE <<Cell(str(Head(pairs)[1]), "START"), Cell(str(Head(pairs)[2]), "START")>>
         \o dict_items_cells(Tail(pairs))

card_section(data) ==
    IF isinstance(data, "DataFrame") THEN get_df_section(data, None)
    ELSE IF isinstance(data, "dict") THEN
        PyDict(<<KV("collapsible", PyBool(TRUE)),
                 KV("uncollapsibleWidgetsCount", PyInt(1)),
                 KV("widgets", PyList(<<Grid(2, dict_items_cells(data.items))>>))>>)
    ELSE IF isinstance(data, "list") THEN
        PyDict(<<KV("collapsible", PyBool(TRUE)),
                 KV("uncollapsibleWidgetsCount", PyInt(1)),
                 KV("widgets",
                    PyList([i \in DOMAIN data.elems |-> TextParagraph(str(data.elems[i]))]))>>)
    ELSE IF isinstance(data, "tuple") THEN
        PyDict(<<KV("collapsible", PyBool(FALSE)),
                 KV("widgets",
                    PyList(<<Grid(Len(data.elems),
                                  [i \in DOMAIN data.elems |->
                                      Cell(str(data.elems[i]), "START")])>>))>>)
    ELSE
        PyDict(<<KV("collapsible", PyBool(FALSE)),
                 KV("widgets", PyList(<<TextParagraph(str(data))>>))>>)

card_document(header, sections) ==
    PyDict(<<KV("cardsV2",
                PyList(<<PyDict(<<KV("cardId", PyStr("resultCard")),
                                  KV("card",
                                     PyDict(<<KV("header", PyDict(<<KV("title", header)>>)),
                                              KV("sections", PyList(sections))>>))>>)>>))>>)

\* The first test of the if chain, isinstance(data, pd.DataFrame), looks up pd.
__create_card(header, data) ==
    LET is_df == isinstance_pd_DataFrame(data) IN
    IF ~is_df.ok THEN is_df
    ELSE Ok(card_document(header, <<card_section(data)>>))

---------------------------------------------------------------------------
(* Reporter.chat *)

WebhookNotFound == "Google Chat webhook URL not found. Check the notify.json documentation"

HttpFaults == {"none", "request"}

\* http_obj.request(uri=webhook, method="POST", headers=message_headers, body=body)
http_request(uri, body, fault) ==
    [result |-> IF fault = "none" THEN Ok(None) ELSE Raise("ServerNotFoundError", fault),
     trace |-> <<[ev |-> "POST", uri |-> uri,
                  content_type |-> "application/json; charset=UTF-8",
                  body |-> body]>>]

\* The body of the try block.  The or chain stops at the first true test, so a dict
\* does not reach isinstance(message, pd.DataFrame); anything else does.
chat_try(message, header, fault) ==
    LET np == load_notify_preferences
        webhook == GetItem2(np.val, "chat", "webhook_url")
        is_df == isinstance_pd_DataFrame(message)
        as_card == \/ isinstance(message, "dict")
                   \/ is_df.val
                   \/ isinstance(message, "list")
                   \/ isinstance(message, "tuple")
        card == __create_card(header, message)
        called == <<[ev |-> "__create_card", header |-> header, data |-> message]>>
    IN  IF ~webhook.ok THEN [result |-> webhook, trace |-> <<>>]
        ELSE IF ~isinstance(message, "dict") /\ ~is_df.ok
             THEN [result |-> is_df, trace |-> <<>>]
        ELSE IF as_card /\ ~card.ok THEN [result |-> card, trace |-> called]
        ELSE IF as_card
             THEN LET r == http_request(webhook.val, dumps(card.val), fault) IN
                  [result |-> r.result, trace |-> called \o r.trace]
        ELSE http_request(webhook.val, dumps(PyDict(<<KV("text", message)>>)), fault)

chat_no_except(message, header, fault) == chat_try(message, header, fault)

\* except KeyError: raise KeyError("Google Chat webhook URL not found. ...")
chat(message, header, fault) ==
    LET r == chat_try(message, header, fault) IN
    IF Raised(r.result, "KeyError")
    THEN [result |-> Raise("KeyError", WebhookNotFound), trace |-> r.trace]
    ELSE r

---------------------------------------------------------------------------
(* Inputs of the dispatch specification *)

MaxEntries == 2
MaxRows == 2
MaxCols == 2

RECURSIVE SeqsUpTo(_, _)
SeqsUpTo(S, n) ==
    IF n = 0 THEN {<<>>}
    ELSE LET shorter == SeqsUpTo(S, n - 1) IN
         shorter \cup {Append(q, x) : q \in {p \in shorter : Len(p) = n - 1}, x \in S}

Scalars == {PyInt(1), PyStr("x")}

MappingItems == {<<PyStr("a"), PyInt(1)>>, <<PyStr("b"), PyInt(2)>>, <<PyInt(12), PyStr("x")>>}

Mappings ==
    {PyDict(q) : q \in {p \in SeqsUpTo(MappingItems, MaxEntries) :
                           \A i, j \in DOMAIN p : i # j => p[i][1] # p[j][1]}}

Sequences == {PyList(q) : q \in SeqsUpTo(Scalars, MaxEntries)}

Records == {PyTuple(q) : q \in SeqsUpTo(Scalars, MaxEntries)}

Tables ==
    {DataFrame([c \in 1..nc |-> PyStr("c" \o IntToStr(c))],
               [r \in 1..nr |-> [c \in 1..nc |-> PyInt(10 * r + c)]]) :
        nc \in 1..MaxCols, nr \in 0..MaxRows}

PlainStrings == {PyStr("hello"), PyStr("")}

Messages == PlainStrings \cup {PyInt(7)} \cup Mappings \cup Sequences \cup Records \cup Tables

Headers == {PyStr("Message from Blankly"), PyStr("Alert")}

Bodies == {"price alert"}

Providers == Keys(email_lookup) \cup {"mint"}

\* A section is absent, or one of the given dicts.
Section(name, dicts) == {<<>>} \cup {<< <<name, d>> >> : d \in dicts}

\* d, and d with one of its keys left out
Without(d) == {d} \cup {SelectSeq(d, LAMBDA p : p[1] # k) : k \in Keys(d)}

DefaultText == << <<"provider", "verizon">>, <<"phone_number", "5550001">> >>

DefaultEmail ==
    << <<"port", 465>>, <<"smtp_server", "smtp.example.com">>,
       <<"sender_email", "bot@example.com">>,
       <<"receiver_email", "owner@example.com">>,
       <<"password", "secret">> >>

DefaultChat == << <<"webhook_url", "https://chat.example.com/hook">> >>

TextSections ==
    {<< <<"provider", p>>, <<"phone_number", "5550001">> >> : p \in Providers}
    \cup {<< <<"provider", "att">>, <<"phone_number", "">> >>}
    \cup Without(DefaultText)
    \cup Without(<< <<"provider", "mint">>, <<"phone_number", "5550002">> >>)

EmailSections == Without(DefaultEmail)

ChatSections == {<<>>, DefaultChat}

\* Every text section, every email section and every chat section, each with the
\* other two sections absent or as in the defaults.
Preferences ==
    {t \o e \o c : t \in Section("text", TextSections),
                   e \in Section("email", {DefaultEmail}),
                   c \in {<< <<"chat", DefaultChat>> >>}}
    \cup {t \o e \o c : t \in Section("text", {DefaultText}),
                        e \in Section("email", EmailSections),
                        c \in {<< <<"chat", DefaultChat>> >>}}
    \cup {t \o e \o c : t \in Section("text", {DefaultText}),
                        e \in Section("email", {DefaultEmail}),
                        c \in Section("chat", ChatSections)}

---------------------------------------------------------------------------
(* The dispatch specification *)

Init ==
    /\ live_vars = <<>>
    /\ screener = None
    /\ refs = {}
    /\ next_serial = 1
    /\ notify_json \in Preferences
    /\ ret = [op |-> "__init__"]
    /\ trace = <<>>
    /\ last_stored = {}
    /\ screener_called = FALSE

SendText ==
    /\ \E body \in Bodies, fault \in SmtpFaults :
          LET r == text(body, fault) IN
          /\ ret' = [op |-> "text", body |-> body, fault |-> fault, result |-> r.result]
          /\ trace' = r.trace
    /\ UNCHANGED <<notify_json, registry_vars>>

SendEmail ==
    /\ \E body \in Bodies, fault \in SmtpFaults :
          LET r == email(body, fault) IN
          /\ ret' = [op |-> "email", body |-> body, fault |-> fault, result |-> r.result]
          /\ trace' = r.trace
    /\ UNCHANGED <<notify_json, registry_vars>>

SendChat ==
    /\ \E message \in Messages, header \in Headers, fault \in HttpFaults :
          LET r == chat(message, header, fault) IN
          /\ ret' = [op |-> "chat", message |-> message, header |-> header,
                     fault |-> fault, result |-> r.result]
          /\ trace' = r.trace
    /\ UNCHANGED <<notify_json, registry_vars>>

CreateCard ==
    /\ \E data \in Messages, header \in Headers :
          /\ ret' = [op |-> "__create_card", data |-> data, header |-> header,
                     result |-> __create_card(header, data)]
          /\ trace' = <<>>
    /\ UNCHANGED <<notify_json, registry_vars>>

Next ==
    \/ SendText
    \/ SendEmail
    \/ SendChat
    \/ CreateCard

Spec == Init /\ [][Next]_vars

---------------------------------------------------------------------------
(* Observations used by the properties *)

Events(kinds) == SelectSeq(trace, LAMBDA e : e.ev \in kinds)

NetworkEvents == Events({"connect", "login", "sendmail", "quit", "POST"})

ConfiguredProvider == GetItem2(notify_json, "text", "provider")

ConfiguredPhone == GetItem2(notify_json, "text", "phone_number")

ConfiguredWebhook == GetItem2(notify_json, "chat", "webhook_url")

EmailKeys == {"port", "smtp_server", "sender_email", "receiver_email", "password"}

EmailComplete == \A k \in EmailKeys : GetItem2(notify_json, "email", k).ok

\* The messages that name the preferences documentation
DocumentedErrors == {ProviderNotFound, WebhookNotFound}

\* d[key] of a tagged dict with string keys
Field(d, key) == GetItem(d.items, PyStr(key)).val

---------------------------------------------------------------------------
(* Properties of the registry and the screener slot (SpecRegistry) *)

\* C5: update_live_var on a handle produced by a prior export returns the value last
\* stored under that handle, which is the exported object itself; no entry of the
\* registry is ever removed; update_live_var on a handle that was never exported fails
\* with the lookup error and leaves the registry unchanged.
C5_RegistryGet ==
    [][/\ Keys(live_vars) \subseteq Keys(live_vars')
       /\ ret'.op = "update_live_var" =>
            /\ live_vars' = live_vars
            /\ IF \E p \in last_stored : p[1] = id(ret'.var)
               THEN /\ \E p \in last_stored :
                          p[1] = id(ret'.var) /\ ret'.result = Ok(p[2])
                    /\ ret'.result.val = ret'.var
               ELSE ret'.result = Raise("KeyError", id(ret'.var))]_vars

\* C5 witness: a second object took the address of a freed, never exported one, was
\* exported beside the first entry, and is read back.
C5_Witness ==
    /\ ret.op = "update_live_var"
    /\ ret.result.ok
    /\ ret.var.serial > Len(live_vars)
    /\ Len(live_vars) > 1

\* C10: the first export_screener call stores its screener; every later call raises
\* RuntimeError and leaves the stored screener and the registry unchanged; no other
\* operation changes the stored screener.
C10_SingleScreener ==
    [][IF ret'.op = "export_screener"
       THEN IF ~screener_called
            THEN screener' = ret'.screener /\ ret'.result = Ok(None)
            ELSE /\ Raised(ret'.result, "RuntimeError")
                 /\ screener' = screener
                 /\ live_vars' = live_vars
       ELSE screener' = screener]_vars

\* C10 witness: a later export_screener of another screener was refused after hooks
\* and exports ran in between.
C10_Witness ==
    /\ ret.op = "export_screener"
    /\ Raised(ret.result, "RuntimeError")
    /\ screener # ret.screener
    /\ Len(live_vars) > 0

---------------------------------------------------------------------------
(* Properties of the dispatch (Spec) *)

\* C1: for every provider of the eight-entry gateway table and every phone number,
\* text hands __send_email the destination phone_number + table[provider], and that
\* destination, not email.receiver_email, is the recipient of the one SMTP send.
C1_TextDestination ==
    /\ Cardinality(Keys(email_lookup)) = 8
    /\ GetItem(email_lookup, "att") = Ok("@txt.att.net")
    /\ (/\ ret.op = "text"
        /\ ConfiguredProvider.ok
        /\ ConfiguredPhone.ok
        /\ ConfiguredProvider.val \in Keys(email_lookup)) =>
          LET destination ==
                  ConfiguredPhone.val \o GetItem(email_lookup, ConfiguredProvider.val).val
              calls == Events({"__send_email"})
              sends == Events({"sendmail"})
          IN  /\ Len(calls) = 1
              /\ calls[1].email_str = ret.body
              /\ calls[1].override_receiver = PyStr(destination)
              /\ Len(sends) <= 1
              /\ \A i \in DOMAIN sends : sends[i].to_addrs = destination
              /\ ret.result.ok => Len(sends) = 1

\* C1 witness: a text went out to the gateway address although another receiver is
\* configured.
C1_Witness ==
    /\ ret.op = "text"
    /\ ret.result.ok
    /\ GetItem2(notify_json, "email", "receiver_email") = Ok("owner@example.com")
    /\ Events({"sendmail"}) # <<>>
    /\ Events({"sendmail"})[1].to_addrs = "5550001@txt.att.net"

\* C2: text with a text section whose provider is not a key of the gateway table fails
\* with the provider-not-found error and performs no network call.
C2_UnsupportedProvider ==
    (/\ ret.op = "text"
     /\ ConfiguredProvider.ok
     /\ ConfiguredPhone.ok
     /\ ConfiguredProvider.val \notin Keys(email_lookup)) =>
        /\ ret.result = Raise("KeyError", ProviderNotFound)
        /\ NetworkEvents = <<>>
        /\ Events({"__send_email"}) = <<>>

\* C2 witness: the provider is unsupported while the email section would allow a send.
C2_Witness ==
    /\ ret.op = "text"
    /\ ret.result = Raise("KeyError", ProviderNotFound)
    /\ EmailComplete
    /\ ConfiguredProvider = Ok("mint")

\* C3: without chat.webhook_url (the chat section or the key is absent) chat fails with
\* the webhook-not-found error before any HTTP call, whatever the shape of the message.
C3_MissingWebhook ==
    (ret.op = "chat" /\ ~ConfiguredWebhook.ok) =>
        /\ ret.result = Raise("KeyError", WebhookNotFound)
        /\ NetworkEvents = <<>>

\* C3 witness: a table was to be sent and the chat section has no webhook_url key.
C3_Witness ==
    /\ ret.op = "chat"
    /\ isinstance(ret.message, "DataFrame")
    /\ GetItem(notify_json, "chat") = Ok(<<>>)
    /\ ret.result = Raise("KeyError", WebhookNotFound)

\* C4: with a webhook URL configured and the POST succeeding, chat POSTs exactly the
\* body {"text": message} for a plain string, whatever the header, and exactly the
\* rendered card for a table, a mapping, a sequence or a record.
C4_ChatBody ==
    (ret.op = "chat" /\ ConfiguredWebhook.ok /\ ret.fault = "none"
     /\ ret.message.t \in {"str", "DataFrame", "dict", "list", "tuple"}) =>
        LET posts == Events({"POST"}) IN
        /\ ret.result.ok
        /\ Len(posts) = 1
        /\ isinstance(ret.message, "str") =>
              posts[1].body = "{\"text\": \"" \o ret.message.s \o "\"}"
        /\ ~isinstance(ret.message, "str") =>
              /\ __create_card(ret.header, ret.message).ok
              /\ posts[1].body = dumps(__create_card(ret.header, ret.message).val)

\* C6: a failure of the outbound call (SMTP connect, login or sendmail; the HTTP POST)
\* reaches the caller as that same transport error, after one attempt, and not as a
\* configuration error.
C6_TransportErrorPropagates ==
    /\ Len(Events({"connect"})) <= 1
    /\ Len(Events({"POST"})) <= 1
    /\ (ret.op \in {"text", "email"} /\ ret.fault # "none" /\ Events({"connect"}) # <<>>) =>
          /\ ret.result = SmtpError(ret.fault)
          /\ ret.result.exc.type \in
                {"SMTPConnectError", "SMTPAuthenticationError", "SMTPRecipientsRefused"}
    /\ (ret.op = "chat" /\ ret.fault # "none" /\ Events({"POST"}) # <<>>) =>
          ret.result = Raise("ServerNotFoundError", ret.fault)

\* C6 witness: the login of an email send was refused and the caller got that error.
C6_Witness ==
    /\ ret.op = "email"
    /\ ret.fault = "login"
    /\ Raised(ret.result, "SMTPAuthenticationError")
    /\ Len(Events({"login"})) = 1

\* C7: email and text, called when a section they need or a required key of it is
\* absent, fail with an error that names the preferences documentation, and open no
\* SMTP session.
C7_ConfigurationError ==
    (\/ ret.op = "email" /\ ~EmailComplete
     \/ ret.op = "text" /\ (~EmailComplete \/ ~ConfiguredProvider.ok \/ ~ConfiguredPhone.ok)) =>
        /\ Raised(ret.result, "KeyError")
        /\ ret.result.exc.arg \in DocumentedErrors
        /\ Events({"connect"}) = <<>>

\* C8: the card of a mapping with k entries has the header as its title and one
\* collapsible section, uncollapsible widget count 1, with one grid of 2 columns and
\* 2k start-aligned cells: key then value of each entry, in the mapping's order.
C8_MappingCard ==
    (ret.op = "__create_card" /\ isinstance(ret.data, "dict")) =>
        /\ ret.result.ok
        /\ LET cards == Field(ret.result.val, "cardsV2").elems
               card == Field(cards[1], "card")
               sections == Field(card, "sections").elems
               widgets == Field(sections[1], "widgets").elems
               grid == Field(widgets[1], "grid")
               items == Field(grid, "items").elems
               m == ret.data.items
           IN  /\ Len(cards) = 1
               /\ Field(Field(card, "header"), "title") = ret.header
               /\ Len(sections) = 1
               /\ Field(sections[1], "collapsible") = PyBool(TRUE)
               /\ Field(sections[1], "uncollapsibleWidgetsCount") = PyInt(1)
               /\ Len(widgets) = 1
               /\ Field(grid, "columnCount") = PyInt(2)
               /\ Len(items) = 2 * Len(m)
               /\ \A i \in DOMAIN m :
                     /\ items[2 * i - 1] = Cell(str(m[i][1]), "START")
                     /\ items[2 * i] = Cell(str(m[i][2]), "START")

\* C9: the card of a table with r rows and c columns has one collapsible section whose
\* grid has c columns and c*(r+1) cells: the c column headers, center-aligned, then
\* every cell value in row-major order, start-aligned.
C9_TableCard ==
    (ret.op = "__create_card" /\ isinstance(ret.data, "DataFrame")) =>
        /\ ret.result.ok
        /\ LET cards == Field(ret.result.val, "cardsV2").elems
               card == Field(cards[1], "card")
               sections == Field(card, "sections").elems
               widgets == Field(sections[1], "widgets").elems
               grid == Field(widgets[1], "grid")
               items == Field(grid, "items").elems
               cols == ret.data.columns
               rows == ret.data.values
               c == Len(cols)
           IN  /\ Len(sections) = 1
               /\ Field(sections[1], "collapsible") = PyBool(TRUE)
               /\ Len(widgets) = 1
               /\ Field(grid, "columnCount") = PyInt(c)
               /\ Len(items) = c * (Len(rows) + 1)
               /\ \A j \in 1..c : items[j] = Cell(str(cols[j]), "CENTER")
               /\ \A r \in DOMAIN rows : \A j \in 1..c :
                     items[c * r + j] = Cell(str(rows[r][j]), "START")

====
